---------------------------- MODULE Spec2Model ----------------------------
(***************************************************************************)
(* TextoHand: text -> wrapped Display Lines -> pages -> vector documents,  *)
(* and the live preview of the GUI.                                        *)
(*                                                                         *)
(* Five specifications over one set of variables:                          *)
(*   Spec      the preview scheduler of src/gui.py (update_preview,        *)
(*             preview_worker, generate_preview_svg, display_svg_preview)  *)
(*   SpecText  the two text paths: generate_handwriting of src/gui.py      *)
(*             (hard-split wrapping, the overflow dialog, pagination) and  *)
(*             process_text of src/main.py (read, sanitize, word-wrap,     *)
(*             paginate)                                                   *)
(*   SpecDraw  _draw of src/handwriting_synthesis/hand/_draw.py: the       *)
(*             per-line loop that places strokes on one document           *)
(*   SpecFair  Spec with the fairness of the worker thread and of the Tk   *)
(*             event loop                                                  *)
(*   SpecFit   the size and position display_svg_preview of src/gui.py     *)
(*             gives the bitmap on the canvas                              *)
(* A text is a sequence of one-character strings; "\n" is the line break.  *)
(***************************************************************************)
EXTENDS Integers, Sequences, FiniteSets, TLC

VARIABLES
    \* ---- preview scheduler (src/gui.py) ----
    preview_mode,     \* self.preview_mode: "layout" | "handwriting"
    text_box,         \* self.text_box content (already stripped)
    preview_queue,    \* self.preview_queue: the triggers waiting in it
    worker_pc,        \* preview_worker: "get" | "after"
    after_callbacks,  \* generate_preview_svg callbacks registered by root.after
    ui_pc,            \* interactive thread: "idle" or the step it is at
    canvas,           \* items on self.preview_canvas
    shown_before,     \* canvas content when the running regeneration started
    preview_file,     \* the text whose document preview.svg holds, or "absent"
    log,              \* messages printed by the except clauses
    updates,          \* number of update_preview calls so far
    canvas_size,      \* the canvas size display_svg_preview last read
    awaiting,         \* a trigger was put and no regeneration started since
    \* ---- generate_handwriting (src/gui.py) ----
    g_pc,             \* position in on_generate / generate_handwriting
    g_box,            \* self.text_box content when the handler starts
    g_text,           \* the text parameter of generate_handwriting
    g_params,         \* params: max_line_length, total_lines, lines_per_page
    g_preview,        \* the preview_mode parameter
    wrapped_lines,    \* wrapped_lines
    overflow,         \* the "Text Overflow" dialog shown, if any
    pages,            \* pages
    written,          \* the hand.write calls made: file name and lines
    \* ---- process_text (src/main.py) ----
    p_pc,             \* position in process_text
    p_file,           \* content of input_file
    p_params,         \* max_line_length, lines_per_page
    p_lines,          \* lines, then sanitized_lines
    p_wrapped,        \* wrapped_lines
    p_pages,          \* pages
    \* ---- _draw (src/handwriting_synthesis/hand/_draw.py) ----
    d_pc,             \* position in _draw
    lines,            \* lines: the Display Lines of the page
    strokes,          \* per line, the stroke after drawing.align
    page,             \* line_height, total_lines_per_page, margin_left, margin_top
    i,                \* the loop index
    initial_coord,    \* initial_coord
    dwg,              \* the elements added to the drawing, in order
    \* ---- display_svg_preview: the size of the shown bitmap (src/gui.py) ----
    f_pc,             \* position in display_svg_preview
    img,              \* img.width, img.height of the opened PNG
    canvas_width,     \* canvas_width
    canvas_height,    \* canvas_height
    new_width,        \* new_width
    new_height,       \* new_height
    image_at          \* twice the coordinates given to create_image

schedVars == <<preview_mode, text_box, preview_queue, worker_pc, after_callbacks,
               ui_pc, canvas, shown_before, preview_file, log, updates,
               canvas_size, awaiting>>
genVars   == <<g_pc, g_box, g_text, g_params, g_preview, wrapped_lines,
               overflow, pages, written>>
procVars  == <<p_pc, p_file, p_params, p_lines, p_wrapped, p_pages>>
drawVars  == <<d_pc, lines, strokes, page, i, initial_coord, dwg>>
fitVars   == <<f_pc, img, canvas_width, canvas_height, new_width, new_height,
               image_at>>
vars      == <<schedVars, genVars, procVars, drawVars, fitVars>>
notSched  == <<genVars, procVars, drawVars, fitVars>>
notGen    == <<schedVars, procVars, drawVars, fitVars>>
notProc   == <<schedVars, genVars, drawVars, fitVars>>
notDraw   == <<schedVars, genVars, procVars, fitVars>>
notFit    == <<schedVars, genVars, procVars, drawVars>>

(***************************************************************************)
(* Bounds of the model.                                                    *)
(***************************************************************************)
MaxUpdates == 3          \* update_preview calls in one behaviour
MaxLog == 2              \* failures logged in one behaviour

(***************************************************************************)
(* Sequence helpers.                                                       *)
(***************************************************************************)
RECURSIVE Concat(_)
Concat(ss) == IF ss = <<>> THEN <<>> ELSE Head(ss) \o Concat(Tail(ss))

Min2(a, b) == IF a < b THEN a ELSE b

\* Python's s[a:b] for 0 <= a, on a sequence (0-based, end exclusive, clipped).
Slice(s, a, b) == SubSeq(s, a + 1, Min2(b, Len(s)))

(***************************************************************************)
(* Idle values of the variables a specification does not use.              *)
(***************************************************************************)
SchedIdle ==
    /\ preview_mode = "layout" /\ text_box = "Enter your text here..."
    /\ preview_queue = <<>> /\ worker_pc = "get" /\ after_callbacks = 0
    /\ ui_pc = "idle" /\ canvas = <<>> /\ shown_before = <<>>
    /\ preview_file = "absent" /\ log = <<>> /\ updates = 0
    /\ canvas_size = <<>> /\ awaiting = FALSE

GenIdle ==
    /\ g_pc = "off" /\ g_box = <<>> /\ g_text = <<>> /\ g_params = <<>>
    /\ g_preview = FALSE
    /\ wrapped_lines = <<>> /\ overflow = <<>> /\ pages = <<>> /\ written = <<>>

ProcIdle ==
    /\ p_pc = "off" /\ p_file = <<>> /\ p_params = <<>> /\ p_lines = <<>>
    /\ p_wrapped = <<>> /\ p_pages = <<>>

DrawIdle ==
    /\ d_pc = "off" /\ lines = <<>> /\ strokes = <<>> /\ page = <<>> /\ i = 0
    /\ initial_coord = <<0, 0>> /\ dwg = <<>>

FitIdle ==
    /\ f_pc = "off" /\ img = <<>> /\ canvas_width = 0 /\ canvas_height = 0
    /\ new_width = 0 /\ new_height = 0 /\ image_at = <<>>

(***************************************************************************)
(* PREVIEW SCHEDULER                                                       *)
(*                                                                         *)
(* Two threads.  The interactive thread runs Tk handlers one at a time:    *)
(* an event handler or an after-callback starts only when ui_pc = "idle",  *)
(* and a regeneration (generate_preview_svg) occupies the thread from its  *)
(* start to its return.  The worker thread loops in preview_worker.        *)
(* root.after called from the worker registers the callback with Tk; at   *)
(* which point of the interactive thread's run that takes effect depends   *)
(* on the Tcl build, so the model lets it happen at any time.              *)
(***************************************************************************)
Placeholder == "Enter your text here..."
Texts == {"", "hello", "world"}
Modes == {"layout", "handwriting"}

\* winfo_width(), winfo_height() of the preview canvas: the user may resize
\* the window at any time; <<1, 1>> is a widget that is not laid out yet.
CanvasSizes == {<<0, 0>>, <<1, 1>>, <<400, 10>>, <<400, 300>>}

\* canvas_width <= 10 or canvas_height <= 10
DegenerateBelow(size) == size[1] < 10 \/ size[2] < 10
Degenerate(size) == size[1] <= 10 \/ size[2] <= 10

LayoutItem(t) == [kind |-> "layout", of |-> t]
ImageItem(t)  == [kind |-> "image", of |-> t]

\* draw_layout_preview: the canvas after delete("all"), the return on a
\* degenerate canvas, else the page, margins, guide lines and the overflow
\* label of text t.
draw_layout_preview(size, t) ==
    IF Degenerate(size) THEN <<>> ELSE <<LayoutItem(t)>>

\* update_preview, called on the interactive thread after the widget
\* variables were set (text_box', preview_mode' are the values it reads):
\* the layout branch draws at once, the else branch goes on to its loop.
update_preview(size) ==
    /\ updates < MaxUpdates
    /\ updates' = updates + 1
    /\ IF preview_mode' = "layout"
         THEN /\ canvas' = draw_layout_preview(size, text_box')
              /\ UNCHANGED ui_pc
         ELSE /\ ui_pc' = "empty"
              /\ UNCHANGED canvas

\* <KeyRelease> on the text box: the text changed, then update_preview.
KeyRelease ==
    /\ ui_pc = "idle"
    /\ \E t \in Texts, size \in CanvasSizes :
          /\ text_box' = t
          /\ UNCHANGED preview_mode
          /\ update_preview(size)
    /\ UNCHANGED <<preview_queue, worker_pc, after_callbacks, shown_before,
                   preview_file, log, canvas_size, awaiting>>
    /\ UNCHANGED notSched

\* A preview-mode radio button: the variable is set, then update_preview.
SelectMode ==
    /\ ui_pc = "idle"
    /\ \E m \in Modes, size \in CanvasSizes :
          /\ preview_mode' = m
          /\ UNCHANGED text_box
          /\ update_preview(size)
    /\ UNCHANGED <<preview_queue, worker_pc, after_callbacks, shown_before,
                   preview_file, log, canvas_size, awaiting>>
    /\ UNCHANGED notSched

\* self.preview_queue.empty()
QueueEmptyAlways(q) == TRUE
QueueEmpty(q) == q = <<>>

\* update_preview: while not self.preview_queue.empty()
DrainTest ==
    /\ ui_pc = "empty"
    /\ ui_pc' = IF QueueEmpty(preview_queue) THEN "put" ELSE "get_nowait"
    /\ UNCHANGED <<preview_mode, text_box, preview_queue, worker_pc,
                   after_callbacks, canvas, shown_before, preview_file, log,
                   updates, canvas_size, awaiting>>
    /\ UNCHANGED notSched

\* update_preview: self.preview_queue.get_nowait(); the worker may have
\* taken the trigger since the test, then queue.Empty breaks the loop.
DrainGet ==
    /\ ui_pc = "get_nowait"
    /\ \/ /\ preview_queue # <<>>
          /\ preview_queue' = Tail(preview_queue)
          /\ ui_pc' = "empty"
       \/ /\ preview_queue = <<>>
          /\ UNCHANGED preview_queue
          /\ ui_pc' = "put"
    /\ UNCHANGED <<preview_mode, text_box, worker_pc, after_callbacks, canvas,
                   shown_before, preview_file, log, updates, canvas_size,
                   awaiting>>
    /\ UNCHANGED notSched

\* Queue.put(True)
PutNothing(q) == q
PutTrigger(q) == Append(q, TRUE)

\* update_preview: self.preview_queue.put(True), and the handler returns.
Put ==
    /\ ui_pc = "put"
    /\ preview_queue' = PutTrigger(preview_queue)
    /\ awaiting' = TRUE
    /\ ui_pc' = "idle"
    /\ UNCHANGED <<preview_mode, text_box, worker_pc, after_callbacks, canvas,
                   shown_before, preview_file, log, updates, canvas_size>>
    /\ UNCHANGED notSched

\* preview_worker: self.preview_queue.get(timeout=1) returns a trigger.
\* (The queue.Empty branch changes nothing: it is a stuttering step.)
WorkerGet ==
    /\ worker_pc = "get"
    /\ preview_queue # <<>>
    /\ preview_queue' = Tail(preview_queue)
    /\ worker_pc' = "after"
    /\ UNCHANGED <<preview_mode, text_box, after_callbacks, ui_pc, canvas,
                   shown_before, preview_file, log, updates, canvas_size,
                   awaiting>>
    /\ UNCHANGED notSched

\* preview_worker: self.root.after(0, self.generate_preview_svg)
WorkerAfter ==
    /\ worker_pc = "after"
    /\ after_callbacks' = after_callbacks + 1
    /\ worker_pc' = "get"
    /\ UNCHANGED <<preview_mode, text_box, preview_queue, ui_pc, canvas,
                   shown_before, preview_file, log, updates, canvas_size,
                   awaiting>>
    /\ UNCHANGED notSched

\* Tk runs one registered callback: generate_preview_svg up to the try.
\* PREVIEW_SUPPORT is taken as True (cairosvg and Pillow are installed).
GeneratePreviewSvg ==
    /\ ui_pc = "idle"
    /\ after_callbacks > 0
    /\ after_callbacks' = after_callbacks - 1
    /\ awaiting' = FALSE
    /\ \/ /\ text_box \in {"", Placeholder}
          /\ UNCHANGED <<ui_pc, shown_before>>
       \/ /\ text_box \notin {"", Placeholder}
          /\ ui_pc' = "generate_handwriting"
          /\ shown_before' = canvas
    /\ UNCHANGED <<preview_mode, text_box, preview_queue, worker_pc, canvas,
                   preview_file, log, updates, canvas_size>>
    /\ UNCHANGED notSched

\* An except clause: print the message and return to the event loop.
Fail(msg) ==
    /\ Len(log) < MaxLog
    /\ log' = Append(log, msg)
    /\ ui_pc' = "idle"

\* self.generate_handwriting(text, temp_file, preview_mode=True): every page
\* is written to the one preview file; an exception of hand.write (stroke
\* generation, writing the document) leaves the file as it was or holding an
\* earlier page of the new text.
PreviewGenerate ==
    /\ ui_pc = "generate_handwriting"
    /\ \/ /\ preview_file' = text_box
          /\ ui_pc' = "svg2png"
          /\ UNCHANGED log
       \/ /\ Fail("Preview generation error")
          /\ preview_file' \in {preview_file, text_box}
    /\ UNCHANGED <<preview_mode, text_box, preview_queue, worker_pc,
                   after_callbacks, canvas, shown_before, updates,
                   canvas_size, awaiting>>
    /\ UNCHANGED notSched

\* display_svg_preview: cairosvg.svg2png and Image.open.
Rasterize ==
    /\ ui_pc = "svg2png"
    /\ \/ ui_pc' = "resize" /\ UNCHANGED log
       \/ Fail("Preview display error")
    /\ UNCHANGED <<preview_mode, text_box, preview_queue, worker_pc,
                   after_callbacks, canvas, shown_before, preview_file,
                   updates, canvas_size, awaiting>>
    /\ UNCHANGED notSched

\* display_svg_preview: read the canvas size, return on a degenerate canvas,
\* else compute the size and img.resize.
Resize ==
    /\ ui_pc = "resize"
    /\ \E size \in CanvasSizes :
          /\ canvas_size' = size
          /\ \/ Degenerate(size) /\ ui_pc' = "idle" /\ UNCHANGED log
             \/ ~Degenerate(size) /\ ui_pc' = "delete" /\ UNCHANGED log
             \/ ~Degenerate(size) /\ Fail("Preview display error")
    /\ UNCHANGED <<preview_mode, text_box, preview_queue, worker_pc,
                   after_callbacks, canvas, shown_before, preview_file,
                   updates, awaiting>>
    /\ UNCHANGED notSched

\* The canvas after self.preview_canvas.delete("all").
DeleteAll(c) == <<>>

\* display_svg_preview: self.preview_canvas.delete("all")
CanvasDelete ==
    /\ ui_pc = "delete"
    /\ canvas' = DeleteAll(canvas)
    /\ ui_pc' = "PhotoImage"
    /\ UNCHANGED <<preview_mode, text_box, preview_queue, worker_pc,
                   after_callbacks, shown_before, preview_file, log, updates,
                   canvas_size, awaiting>>
    /\ UNCHANGED notSched

\* display_svg_preview: ImageTk.PhotoImage(img)
PhotoImage ==
    /\ ui_pc = "PhotoImage"
    /\ \/ ui_pc' = "create_image" /\ UNCHANGED log
       \/ Fail("Preview display error")
    /\ UNCHANGED <<preview_mode, text_box, preview_queue, worker_pc,
                   after_callbacks, canvas, shown_before, preview_file,
                   updates, canvas_size, awaiting>>
    /\ UNCHANGED notSched

\* display_svg_preview: self.preview_canvas.create_image(...)
CreateImage ==
    /\ ui_pc = "create_image"
    /\ \/ /\ canvas' = Append(canvas, ImageItem(preview_file))
          /\ ui_pc' = "idle"
          /\ UNCHANGED log
       \/ Fail("Preview display error") /\ UNCHANGED canvas
    /\ UNCHANGED <<preview_mode, text_box, preview_queue, worker_pc,
                   after_callbacks, shown_before, preview_file, updates,
                   canvas_size, awaiting>>
    /\ UNCHANGED notSched

\* After __init__: reset_defaults ran update_preview in layout mode on a
\* canvas that is not laid out yet, so the canvas is empty.
Init == SchedIdle /\ GenIdle /\ ProcIdle /\ DrawIdle /\ FitIdle

Next ==
    \/ KeyRelease
    \/ SelectMode
    \/ DrainTest
    \/ DrainGet
    \/ Put
    \/ WorkerGet
    \/ WorkerAfter
    \/ GeneratePreviewSvg
    \/ PreviewGenerate
    \/ Rasterize
    \/ Resize
    \/ CanvasDelete
    \/ PhotoImage
    \/ CreateImage

Spec == Init /\ [][Next]_vars

(***************************************************************************)
(* TEXT: strings as sequences of characters                                *)
(***************************************************************************)
MaxTextLen == 6          \* characters in the text box (besides the scenarios)
MaxLineLength == 2       \* max_line_length
MaxTotalLines == 2       \* total_lines
MaxLinesPerPage == 2     \* lines_per_page

NL == "\n"
Whitespace == {" ", NL}

\* All sequences over S of length at most n.
SeqsUpTo(S, n) == UNION {[1..k -> S] : k \in 0..n}

\* str.strip(): leading and trailing whitespace removed.
RECURSIVE LStrip(_)
LStrip(s) ==
    IF s # <<>> /\ Head(s) \in Whitespace THEN LStrip(Tail(s)) ELSE s

RECURSIVE RStrip(_)
RStrip(s) ==
    IF s # <<>> /\ s[Len(s)] \in Whitespace
      THEN RStrip(SubSeq(s, 1, Len(s) - 1)) ELSE s

Strip(s) == RStrip(LStrip(s))

\* text.split("\n"): the pieces between line breaks (at least one piece).
RECURSIVE SplitLines(_)
SplitLines(s) ==
    IF \E k \in 1..Len(s) : s[k] = NL
      THEN LET k == CHOOSE j \in 1..Len(s) :
                       s[j] = NL /\ \A h \in 1..(j - 1) : s[h] # NL
           IN  <<SubSeq(s, 1, k - 1)>> \o SplitLines(SubSeq(s, k + 1, Len(s)))
      ELSE <<s>>

\* "Enter your text here..."
PlaceholderText ==
    <<"E","n","t","e","r"," ","y","o","u","r"," ","t","e","x","t"," ",
      "h","e","r","e",".",".",".">>

(***************************************************************************)
(* generate_handwriting (src/gui.py): hard-split wrap, overflow, paginate  *)
(***************************************************************************)
\* self.defaults
Defaults ==
    [max_line_length |-> 60, total_lines |-> 24, lines_per_page |-> 24,
     line_height |-> 32, margin_left |-> 64, margin_top |-> 96]

\* Mutant of ChunkEnd: the slice runs one character too far.
ChunkEndTooFar(j, L) == j + L + 1

\* The end of the slice taken at offset j: line[j:j+max_line_length].
ChunkEnd(j, L) == j + L

\* range(0, len(line), L) raises ValueError for a step of zero.
RangeRaises(L) == L = 0

\* for i in range(0, len(line), L): wrapped_lines.append(line[i:i+L])
\* A negative step gives an empty range; a zero step never gets here.
RECURSIVE ChunksFrom(_, _, _)
ChunksFrom(line, j, L) ==
    IF j >= Len(line) \/ L <= 0 THEN <<>>
    ELSE <<Slice(line, j, ChunkEnd(j, L))>> \o ChunksFrom(line, j + L, L)

\* The body of the wrap loop for one source line.
WrapLine(line, L) ==
    IF line = <<>> THEN << <<>> >> ELSE ChunksFrom(line, 0, L)

\* The wrap loop over text.split("\n").
RECURSIVE WrapAll(_, _)
WrapAll(ls, L) ==
    IF ls = <<>> THEN <<>> ELSE WrapLine(Head(ls), L) \o WrapAll(Tail(ls), L)

HardWrap(text, L) == WrapAll(SplitLines(text), L)

\* The wrap loop raises: it reaches a non-empty line with a step of zero.
WrapRaises(text, L) ==
    RangeRaises(L) /\ \E k \in 1..Len(SplitLines(text)) : SplitLines(text)[k] # <<>>

\* Mutant of PageEnd: the page slice runs one line too far.
PageEndTooFar(j, P) == j + P + 1

\* The end of the page slice taken at offset j: wrapped_lines[j:j+P].
PageEnd(j, P) == j + P

\* [wrapped_lines[i:i+P] for i in range(0, len(wrapped_lines), P)]
RECURSIVE PagesFrom(_, _, _)
PagesFrom(ws, j, P) ==
    IF j >= Len(ws) THEN <<>>
    ELSE <<Slice(ws, j, PageEnd(j, P))>> \o PagesFrom(ws, j + P, P)

Paginate(ws, P) == PagesFrom(ws, 0, P)

\* Mutant of IsOverflow: >= in place of >.
IsOverflowOrEqual(preview, n, T) == ~preview /\ n >= T

\* The overflow test: not preview_mode and len(wrapped_lines) > total_lines.
IsOverflow(preview, n, T) == ~preview /\ n > T

\* Mutant of FileName: a file per page in preview mode too.
FileNamePerPage(preview, k) == <<"result_page", k>>

\* The file name of page k (1-based): the preview file, or result_page_k.svg.
FileName(preview, k) ==
    IF preview THEN <<"preview.svg">> ELSE <<"result_page", k>>

\* Mutant of PageArg: the ruled-line count taken from lines_per_page.
PageArgLinesPerPage(params) ==
    [line_height |-> params.line_height,
     total_lines_per_page |-> params.lines_per_page,
     margin_left |-> -params.margin_left,
     margin_top |-> -params.margin_top]

\* The page argument of hand.write: line_height, total_lines_per_page,
\* margin_left, margin_top (view size and colours are not modelled).
PageArg(params) ==
    [line_height |-> params.line_height,
     total_lines_per_page |-> params.total_lines,
     margin_left |-> -params.margin_left,
     margin_top |-> -params.margin_top]

\* The "Generate each page" loop: one hand.write per non-empty page.
RECURSIVE WritePages(_, _, _, _)
WritePages(ps, k, preview, params) ==
    IF k > Len(ps) THEN <<>>
    ELSE (IF ps[k] = <<>> THEN <<>>
          ELSE <<[filename |-> FileName(preview, k), lines |-> ps[k],
                  page |-> PageArg(params)]>>)
         \o WritePages(ps, k + 1, preview, params)

\* The pages whose hand.write may raise: the stroke generator is asked for
\* the page's lines and fails with GenerationError on one of them.
MayRaise(ps) ==
    {k \in 1..Len(ps) : \E n \in 1..Len(ps[k]) : ps[k][n] # <<>>}

\* Paginate and generate each page.  The loop has no try: an exception of
\* hand.write for page k leaves generate_handwriting with the pages before
\* k written.
PaginateAndWrite(ws) ==
    /\ pages' = Paginate(ws, g_params.lines_per_page)
    /\ \/ /\ written' = WritePages(pages', 1, g_preview, g_params)
          /\ g_pc' = "done"
       \/ \E k \in MayRaise(pages') :
             /\ written' = WritePages(SubSeq(pages', 1, k - 1), 1, g_preview,
                                      g_params)
             /\ g_pc' = "GenerationError"

\* max_line_length values below the slider's range.
InvalidLengths == {-1, 0}

GenChars == {"a", " ", NL}

\* HELLO WORLD, and 30 one-character lines.
HelloWorld == <<"H","E","L","L","O"," ","W","O","R","L","D">>
ThirtyLines == [k \in 1..59 |-> IF k % 2 = 1 THEN "a" ELSE NL]

GenInputs ==
    {[box |-> t,
      params |-> [Defaults EXCEPT !.max_line_length = L, !.total_lines = T,
                                  !.lines_per_page = P]] :
        t \in SeqsUpTo(GenChars, MaxTextLen),
        L \in InvalidLengths \cup 1..MaxLineLength,
        T \in 1..MaxTotalLines, P \in 1..MaxLinesPerPage}
    \cup {[box |-> HelloWorld, params |-> [Defaults EXCEPT !.max_line_length = 5]],
          [box |-> ThirtyLines, params |-> Defaults],
          [box |-> PlaceholderText, params |-> Defaults]}

GenInit ==
    /\ g_pc = "ready"
    /\ \E in \in GenInputs : g_box = in.box /\ g_params = in.params
    /\ g_preview \in BOOLEAN
    /\ g_text = <<>> /\ wrapped_lines = <<>> /\ overflow = <<>>
    /\ pages = <<>> /\ written = <<>>

\* on_generate (preview_mode=False) and generate_preview_svg
\* (preview_mode=True): strip the text box, return on an empty text or the
\* placeholder, else call generate_handwriting, which wraps the text.
CallGenerate ==
    /\ g_pc = "ready"
    /\ LET text == Strip(g_box) IN
          IF text = <<>> \/ text = PlaceholderText
            THEN /\ g_pc' = "returned"
                 /\ UNCHANGED <<g_text, wrapped_lines>>
            ELSE /\ g_text' = text
                 /\ IF WrapRaises(text, g_params.max_line_length)
                      THEN /\ g_pc' = "ValueError"
                           /\ UNCHANGED wrapped_lines
                      ELSE /\ wrapped_lines' =
                                 HardWrap(text, g_params.max_line_length)
                           /\ g_pc' = "wrapped"
    /\ UNCHANGED <<g_box, g_params, g_preview, overflow, pages, written>>
    /\ UNCHANGED notGen

\* generate_handwriting from "Check for overflow": show the dialog, or
\* paginate and write the pages.
CheckOverflow ==
    /\ g_pc = "wrapped"
    /\ IF IsOverflow(g_preview, Len(wrapped_lines), g_params.total_lines)
         THEN /\ overflow' = <<[required |-> Len(wrapped_lines),
                                available |-> g_params.total_lines]>>
              /\ g_pc' = "askyesno"
              /\ UNCHANGED <<pages, written>>
         ELSE /\ PaginateAndWrite(wrapped_lines)
              /\ UNCHANGED overflow
    /\ UNCHANGED <<g_box, g_text, g_params, g_preview, wrapped_lines>>
    /\ UNCHANGED notGen

\* The user answers the dialog: No returns, Yes truncates and goes on.
AnswerOverflow ==
    /\ g_pc = "askyesno"
    /\ \/ /\ g_pc' = "returned"
          /\ UNCHANGED <<wrapped_lines, pages, written>>
       \/ /\ wrapped_lines' = Slice(wrapped_lines, 0, g_params.total_lines)
          /\ PaginateAndWrite(wrapped_lines')
    /\ UNCHANGED <<g_box, g_text, g_params, g_preview, overflow>>
    /\ UNCHANGED notGen


(***************************************************************************)
(* process_text (src/main.py): read, sanitize, word-wrap, paginate         *)
(***************************************************************************)
MaxFileLen == 5          \* characters in the input file

\* main(): alphabet (without its '\x00' entry).
alphabet ==
    {" ", "!", "\"", "#", "'", "(", ")", ",", "-", ".",
     "0", "1", "2", "3", "4", "5", "6", "7", "8", "9", ":", ";",
     "?", "A", "B", "C", "D", "E", "F", "G", "H", "I", "J", "K",
     "L", "M", "N", "O", "P", "R", "S", "T", "U", "V", "W", "Y",
     "a", "b", "c", "d", "e", "f", "g", "h", "i", "j", "k", "l",
     "m", "n", "o", "p", "q", "r", "s", "t", "u", "v", "w", "x",
     "y", "z"}

\* Iterating the file: each line with its line break, the last one without
\* when the file does not end in a line break.
RECURSIVE FileLines(_)
FileLines(s) ==
    IF s = <<>> THEN <<>>
    ELSE IF \E k \in 1..Len(s) : s[k] = NL
      THEN LET k == CHOOSE j \in 1..Len(s) :
                       s[j] = NL /\ \A h \in 1..(j - 1) : s[h] # NL
           IN  <<SubSeq(s, 1, k)>> \o FileLines(SubSeq(s, k + 1, Len(s)))
      ELSE <<s>>

\* [line.strip() for line in file if line.strip()]
RECURSIVE ReadLines(_)
ReadLines(fl) ==
    IF fl = <<>> THEN <<>>
    ELSE (IF Strip(Head(fl)) # <<>> THEN <<Strip(Head(fl))>> ELSE <<>>)
         \o ReadLines(Tail(fl))

\* ''.join(char if char in alphabet else ' ' for char in line)
Sanitize(line) ==
    [k \in 1..Len(line) |-> IF line[k] \in alphabet THEN line[k] ELSE " "]

\* line.split(): the maximal runs of non-whitespace characters.
RECURSIVE SplitWords(_, _)
SplitWords(s, word) ==
    IF s = <<>> THEN (IF word = <<>> THEN <<>> ELSE <<word>>)
    ELSE IF Head(s) \in Whitespace
      THEN (IF word = <<>> THEN <<>> ELSE <<word>>) \o SplitWords(Tail(s), <<>>)
      ELSE SplitWords(Tail(s), Append(word, Head(s)))

Words(line) == SplitWords(line, <<>>)

\* Mutant of Overflows: the joining space is not counted.
OverflowsNoSpace(current_line, word, L) == Len(current_line) + Len(word) > L

\* len(current_line) + len(word) + 1 > max_line_length
Overflows(current_line, word, L) == Len(current_line) + Len(word) + 1 > L

\* The inner loop over words, and the final "if current_line: append".
RECURSIVE WrapWords(_, _, _, _)
WrapWords(words, current_line, out, L) ==
    IF words = <<>>
      THEN (IF current_line # <<>> THEN Append(out, Strip(current_line)) ELSE out)
    ELSE LET word == Head(words) IN
         IF Overflows(current_line, word, L)
           THEN WrapWords(Tail(words), word, Append(out, Strip(current_line)), L)
           ELSE WrapWords(Tail(words), current_line \o <<" ">> \o word, out, L)

\* The wrap loop over sanitized_lines.
RECURSIVE WordWrap(_, _)
WordWrap(ls, L) ==
    IF ls = <<>> THEN <<>>
    ELSE WrapWords(Words(Head(ls)), <<>>, <<>>, L) \o WordWrap(Tail(ls), L)

\* The end of the page slice taken at offset j: wrapped_lines[j:j+P].
ProcPageEnd(j, P) == j + P

\* [wrapped_lines[i:i+P] for i in range(0, len(wrapped_lines), P)]
RECURSIVE ProcPagesFrom(_, _, _)
ProcPagesFrom(ws, j, P) ==
    IF j >= Len(ws) THEN <<>>
    ELSE <<Slice(ws, j, ProcPageEnd(j, P))>> \o ProcPagesFrom(ws, j + P, P)

ProcChars == {"a", " ", "Q", NL}

ProcInputs ==
    {[file |-> t, params |-> [max_line_length |-> L, lines_per_page |-> P]] :
        t \in SeqsUpTo(ProcChars, MaxFileLen),
        L \in InvalidLengths \cup 1..(MaxLineLength + 1),
        P \in 1..MaxLinesPerPage}
    \cup {[file |-> ThirtyLines,
           params |-> [max_line_length |-> Defaults.max_line_length,
                       lines_per_page |-> Defaults.lines_per_page]]}

ProcInit ==
    /\ p_pc = "start"
    /\ \E in \in ProcInputs : p_file = in.file /\ p_params = in.params
    /\ p_lines = <<>> /\ p_wrapped = <<>> /\ p_pages = <<>>

\* process_text: read the non-blank lines, stripped.
ReadFile ==
    /\ p_pc = "start"
    /\ p_lines' = ReadLines(FileLines(p_file))
    /\ p_pc' = "read"
    /\ UNCHANGED <<p_file, p_params, p_wrapped, p_pages>>
    /\ UNCHANGED notProc

\* process_text: sanitize, then wrap.
SanitizeAndWrap ==
    /\ p_pc = "read"
    /\ p_lines' = [k \in 1..Len(p_lines) |-> Sanitize(p_lines[k])]
    /\ p_wrapped' = WordWrap(p_lines', p_params.max_line_length)
    /\ p_pc' = "wrapped"
    /\ UNCHANGED <<p_file, p_params, p_pages>>
    /\ UNCHANGED notProc

\* process_text: paginate (each page is then handed to hand.write).
ProcPaginate ==
    /\ p_pc = "wrapped"
    /\ p_pages' = ProcPagesFrom(p_wrapped, 0, p_params.lines_per_page)
    /\ p_pc' = "done"
    /\ UNCHANGED <<p_file, p_params, p_lines, p_wrapped>>
    /\ UNCHANGED notProc

\* The two text paths in one specification.
TextInit ==
    \/ GenInit /\ SchedIdle /\ ProcIdle /\ DrawIdle /\ FitIdle
    \/ ProcInit /\ SchedIdle /\ GenIdle /\ DrawIdle /\ FitIdle

TextNext ==
    \/ CallGenerate
    \/ CheckOverflow
    \/ AnswerOverflow
    \/ ReadFile
    \/ SanitizeAndWrap
    \/ ProcPaginate

SpecText == TextInit /\ [][TextNext]_vars


(***************************************************************************)
(* CLAIMS about the text paths (checked under SpecText)                    *)
(***************************************************************************)
GenL == g_params.max_line_length
GenT == g_params.total_lines
GenP == g_params.lines_per_page

\* The wrapped-line count of the text before any truncation.
GenRequired == Len(HardWrap(g_text, GenL))

\* ps partitions ws into consecutive pages of P lines, the last one shorter
\* but not empty.
PagesOK(ps, ws, P) ==
    /\ Concat(ps) = ws
    /\ \A k \in 1..Len(ps) :
          /\ Len(ps[k]) >= 1
          /\ Len(ps[k]) <= P
          /\ (k < Len(ps) => Len(ps[k]) = P)

\* ws splits into consecutive non-empty groups, one per source line, each
\* concatenating to its source line.
RECURSIVE Grouped(_, _)
Grouped(ws, ls) ==
    IF ls = <<>> THEN ws = <<>>
    ELSE \E k \in 1..Len(ws) :
            /\ Concat(SubSeq(ws, 1, k)) = Head(ls)
            /\ Grouped(SubSeq(ws, k + 1, Len(ws)), Tail(ls))

\* The characters of a line that are not whitespace.
NonSpace(s) == SelectSeq(s, LAMBDA c : c \notin Whitespace)

\* ws splits into consecutive groups, one per source line: a source line
\* without words gives exactly one empty Display Line, a source line with
\* words gives Display Lines carrying its (sanitized) characters.
RECURSIVE BlankKept(_, _)
BlankKept(ws, ls) ==
    IF ls = <<>> THEN ws = <<>>
    ELSE IF Words(Head(ls)) = <<>>
      THEN ws # <<>> /\ Head(ws) = <<>> /\ BlankKept(Tail(ws), Tail(ls))
      ELSE \E k \in 0..Len(ws) :
              /\ NonSpace(Concat(SubSeq(ws, 1, k))) = NonSpace(Sanitize(Head(ls)))
              /\ BlankKept(SubSeq(ws, k + 1, Len(ws)), Tail(ls))

\* The words of all the lines, in order.
RECURSIVE AllWords(_)
AllWords(ls) == IF ls = <<>> THEN <<>> ELSE Words(Head(ls)) \o AllWords(Tail(ls))

\* " ".join(ls)
RECURSIVE JoinSpace(_)
JoinSpace(ls) ==
    IF ls = <<>> THEN <<>>
    ELSE IF Len(ls) = 1 THEN Head(ls)
    ELSE Head(ls) \o <<" ">> \o JoinSpace(Tail(ls))

\* C3 as stated: whenever generate_handwriting wraps a text into more
\* Display Lines than the budget T it reports an overflow with the true
\* count and T before composing any page, and after a Yes exactly T lines
\* remain and are paginated.
C3_OverflowAlwaysReported ==
    (g_pc \in {"askyesno", "done"} /\ GenRequired > GenT) =>
        /\ overflow = <<[required |-> GenRequired, available |-> GenT]>>
        /\ (g_pc = "askyesno" => pages = <<>> /\ written = <<>>)
        /\ (g_pc = "done" => /\ Len(wrapped_lines) = GenT
                             /\ Concat(pages) = wrapped_lines)

\* C3 amended: with preview_mode=False, an overflow is reported exactly when
\* the text wraps into more Display Lines than T, with the true count and T,
\* before any page is composed; after Yes exactly the first T Display Lines
\* remain and are paginated, after No nothing is written.  With
\* preview_mode=True no overflow is reported and every wrapped line is
\* paginated.
C3_OverflowReportedUnlessPreview ==
    /\ (g_pc \in {"askyesno", "done"} /\ ~g_preview /\ GenRequired > GenT) =>
          /\ overflow = <<[required |-> GenRequired, available |-> GenT]>>
          /\ (g_pc = "askyesno" => pages = <<>> /\ written = <<>>)
          /\ (g_pc = "done" =>
                /\ wrapped_lines = SubSeq(HardWrap(g_text, GenL), 1, GenT)
                /\ Concat(pages) = wrapped_lines)
    /\ (overflow # <<>> => ~g_preview /\ GenRequired > GenT)
    /\ (g_pc = "returned" => written = <<>>)
    /\ (g_pc = "done" /\ g_preview) =>
          /\ overflow = <<>>
          /\ wrapped_lines = HardWrap(g_text, GenL)
          /\ Concat(pages) = wrapped_lines

C3_Witness ==
    /\ g_pc = "done" /\ ~g_preview /\ overflow # <<>>
    /\ overflow[1].required > GenT
    /\ Len(wrapped_lines) = GenT
    /\ Len(pages) >= 2

\* C4: the pages, concatenated in order, are the wrapped sequence; every
\* page but the last has exactly P lines, the last has 1..P, none is empty;
\* 30 wrapped lines with P = 24 give pages of 24 and 6 lines (both paths).
C4_Pagination ==
    /\ g_pc = "done" =>
          /\ PagesOK(pages, wrapped_lines, GenP)
          /\ (Len(wrapped_lines) = 30 /\ GenP = 24) =>
                Len(pages) = 2 /\ Len(pages[1]) = 24 /\ Len(pages[2]) = 6
    /\ p_pc = "done" =>
          /\ PagesOK(p_pages, p_wrapped, p_params.lines_per_page)
          /\ (Len(p_wrapped) = 30 /\ p_params.lines_per_page = 24) =>
                Len(p_pages) = 2 /\ Len(p_pages[1]) = 24 /\ Len(p_pages[2]) = 6

C4_Witness ==
    /\ g_pc = "done" /\ Len(wrapped_lines) = 30 /\ GenP = 24
    /\ Len(pages) = 2 /\ Len(pages[2]) = 6

\* C5: hard-split wrapping: every Display Line has at most L characters,
\* the chunks of each source line concatenate to that source line, and
\* "HELLO WORLD" with L = 5 wraps to "HELLO", " WORL", "D".
C5_HardSplit ==
    (g_pc = "wrapped" /\ GenL >= 1) =>
        /\ \A k \in 1..Len(wrapped_lines) : Len(wrapped_lines[k]) <= GenL
        /\ Grouped(wrapped_lines, SplitLines(g_text))
        /\ (g_text = HelloWorld /\ GenL = 5) =>
              wrapped_lines = << <<"H","E","L","L","O">>,
                                 <<" ","W","O","R","L">>, <<"D">> >>

C5_Witness ==
    /\ g_pc = "wrapped" /\ g_text = HelloWorld /\ GenL = 5
    /\ Len(wrapped_lines) = 3

\* C6: word-wrap of process_text: no word is split, a Display Line is longer
\* than L only when it is a single word, and the wrapped lines joined with
\* single spaces split into the original words in order.
C6_WordWrap ==
    (p_pc \in {"wrapped", "done"} /\ p_params.max_line_length >= 1) =>
        /\ AllWords(p_wrapped) = AllWords(p_lines)
        /\ Words(JoinSpace(p_wrapped)) = AllWords(p_lines)
        /\ \A k \in 1..Len(p_wrapped) :
              \/ Len(p_wrapped[k]) <= p_params.max_line_length
              \/ Words(p_wrapped[k]) = <<p_wrapped[k]>>

C6_Witness ==
    /\ p_pc = "wrapped"
    /\ \E k \in 1..Len(p_wrapped) : Len(Words(p_wrapped[k])) >= 2
    /\ Len(AllWords(p_lines)) >= 3
    /\ Len(p_wrapped) >= 2

\* C7 as stated: in both paths every source line without words yields
\* exactly one empty Display Line, in its position.
C7_BlankLinesPreserved ==
    /\ g_pc = "wrapped" => BlankKept(wrapped_lines, SplitLines(g_text))
    /\ p_pc = "wrapped" => BlankKept(p_wrapped, FileLines(p_file))

\* C11 as stated: when the stroke generator fails for one Display Line the
\* failure stays with that line: the page loop still ends with the document
\* of every non-empty page written, the failing page and the pages after it
\* included.
C11_FailureSkipsOnlyTheLine ==
    g_pc \in {"done", "GenerationError"} =>
        written = WritePages(pages, 1, g_preview, g_params)

\* C12 as stated: with max_line_length <= 0 both paths reject the request
\* with an error before any Display Line is produced, any page is composed
\* or any file is written.
C12_InvalidLengthRejected ==
    /\ g_pc \in {"wrapped", "askyesno", "done", "GenerationError"} => GenL >= 1
    /\ g_pc = "ValueError" =>
          wrapped_lines = <<>> /\ pages = <<>> /\ written = <<>>
    /\ p_pc \in {"wrapped", "done"} => p_params.max_line_length >= 1

\* C20 as stated: for L >= 1 every Display Line process_text produces is
\* non-empty, so there are at most as many Display Lines as words.
C20_NoSpuriousBlankLines ==
    (p_pc = "wrapped" /\ p_params.max_line_length >= 1) =>
        /\ \A k \in 1..Len(p_wrapped) : p_wrapped[k] # <<>>
        /\ Len(p_wrapped) <= Len(AllWords(p_lines))


(***************************************************************************)
(* CLAIMS about the preview scheduler (checked under Spec)                 *)
(***************************************************************************)
\* Regenerations executing: generate_preview_svg is past its early returns.
RegenSteps == {"generate_handwriting", "svg2png", "resize", "delete",
               "PhotoImage", "create_image"}
Executing == IF ui_pc \in RegenSteps THEN 1 ELSE 0

\* Requests triggered whose regeneration has not started: the triggers in
\* preview_queue and the callbacks the worker handed to the interactive
\* thread.
Pending == Len(preview_queue) + after_callbacks

\* C1 as stated: in every reachable state at most one regeneration is
\* executing and at most one regeneration request is pending.
C1_OneInFlightOnePending == Executing <= 1 /\ Pending <= 1

\* A step in which a regeneration fails: an except clause logs and returns.
RegenerationFails == ui_pc # "idle" /\ Len(log') = Len(log) + 1

\* C10 as stated: a regeneration that fails at any step is caught and
\* logged, schedules no retry, leaves the scheduler accepting triggers, and
\* leaves on the canvas exactly what it showed before the regeneration
\* started.
C10_FailedRegenerationKeepsPreview ==
    [][RegenerationFails =>
          /\ ui_pc' = "idle"
          /\ preview_queue' = preview_queue
          /\ after_callbacks' = after_callbacks
          /\ canvas' = shown_before]_vars

UiStep ==
    \/ DrainTest \/ DrainGet \/ Put
    \/ PreviewGenerate \/ Rasterize \/ Resize
    \/ CanvasDelete \/ PhotoImage \/ CreateImage

SpecFair ==
    /\ Spec
    /\ WF_vars(WorkerGet)
    /\ WF_vars(WorkerAfter)
    /\ WF_vars(GeneratePreviewSvg)
    /\ WF_vars(UiStep)

C17_QueueAtMostOne == Len(preview_queue) <= 1

\* update_preview drained a trigger no regeneration had started for, and is
\* about to put the new one.
C17_Witness ==
    /\ ui_pc = "put"
    /\ awaiting
    /\ preview_queue = <<>> /\ after_callbacks = 0 /\ worker_pc = "get"

\* C18 as stated: while the mode is layout and the layout drawing is on the
\* canvas, no step of a regeneration changes the canvas.
C18_LayoutNotReplaced ==
    [][(/\ preview_mode = "layout"
        /\ preview_mode' = "layout"
        /\ canvas # <<>>
        /\ canvas[1].kind = "layout"
        /\ ui_pc \in RegenSteps)
          => canvas' = canvas]_vars


(***************************************************************************)
(* _draw (src/handwriting_synthesis/hand/_draw.py)                         *)
(*                                                                         *)
(* drawing.offsets_to_coords, denoise and align are outside this           *)
(* repository's sources: strokes[k] is the coordinate sequence they return *)
(* for line k, any polyline.  Coordinates are integers and line_height is  *)
(* even, so that line_height/2 is exact.  The pen-lift flag only selects   *)
(* M or L in the path string and is left out.                              *)
(***************************************************************************)
MaxDrawLines == 3        \* Display Lines handed to _draw
MaxSlots == 3            \* total_lines_per_page
MaxHalfLineHeight == 2   \* line_height / 2
MaxCoord == 2            \* stroke coordinates

RECURSIVE SeqMin(_)
SeqMin(s) ==
    IF Len(s) = 1 THEN s[1] ELSE Min2(Head(s), SeqMin(Tail(s)))

Element(kind, at, pts, line) ==
    [kind |-> kind, at |-> at, pts |-> pts, line |-> line]

\* dwg.add(dwg.rect(...)), the ruled lines for i in
\* range(total_lines_per_page) at y = line_height * (i + 1) - margin_top,
\* and the four margin lines.
Background(pg) ==
    <<Element("rect", <<0, 0>>, <<>>, -1)>>
    \o [k \in 1..pg.total_lines_per_page |->
          Element("line", <<0, pg.line_height * k - pg.margin_top>>, <<>>, -1)]
    \o <<Element("margin", <<-pg.margin_left + pg.line_height \div 2, 0>>, <<>>, -1),
         Element("margin", <<-pg.margin_left + pg.line_height \div 2 - 5, 0>>, <<>>, -1),
         Element("margin", <<0, -pg.margin_top>>, <<>>, -1),
         Element("margin", <<0, -pg.margin_top - 5>>, <<>>, -1)>>

\* initial_coord = np.array([margin_left, margin_top - line_height/2])
InitialCoord(pg) == <<pg.margin_left, pg.margin_top - pg.line_height \div 2>>

\* Mutant of AtCap: > in place of >=.
AtCapLate(idx, total) == idx > total

\* if i >= total_lines_per_page: break
AtCap(idx, total) == idx >= total

\* Mutant of Advance: the cursor stays where it is.
AdvanceNot(ic, lh) == ic

\* initial_coord[1] -= line_height
Advance(ic, lh) == <<ic[1], ic[2] - lh>>

\* strokes[:, 1] *= -1
Orient(pts) == [k \in 1..Len(pts) |-> <<pts[k][1], -pts[k][2]>>]

\* strokes[:, :2].min(): the least of all the x and y values.
ScalarMin(pts) ==
    SeqMin([k \in 1..(2 * Len(pts)) |->
               IF k <= Len(pts) THEN pts[k][1] ELSE pts[k - Len(pts)][2]])

\* strokes[:, :2] -= strokes[:, :2].min() + initial_coord
Place(pts, ic) ==
    LET m == ScalarMin(pts) IN
    [k \in 1..Len(pts) |-> <<pts[k][1] - (m + ic[1]), pts[k][2] - (m + ic[2])>>]

\* One iteration of the loop for index idx (0-based) that is not the break:
\* the drawing and the cursor after it.
LoopBody(doc, ic, idx, line, stroke, lh) ==
    IF line = <<>>
      THEN [dwg |-> doc, initial_coord |-> Advance(ic, lh)]
      ELSE [dwg |-> Append(doc, Element("path", <<-ic[1], -ic[2]>>,
                                        Place(Orient(stroke), ic), idx)),
            initial_coord |-> Advance(ic, lh)]

\* The loop from index idx on, to its end or its break.
RECURSIVE LoopFrom(_, _, _, _, _, _)
LoopFrom(doc, ic, idx, ls, ss, pg) ==
    IF idx >= Len(ls) \/ idx >= Len(ss) \/ AtCap(idx, pg.total_lines_per_page)
      THEN doc
      ELSE LET r == LoopBody(doc, ic, idx, ls[idx + 1], ss[idx + 1], pg.line_height)
           IN  LoopFrom(r.dwg, r.initial_coord, idx + 1, ls, ss, pg)

\* The document _draw saves for these lines, strokes and page.
DrawDocument(ls, ss, pg) == LoopFrom(Background(pg), InitialCoord(pg), 0, ls, ss, pg)

DrawLineKinds == {<<>>, <<"a">>}
Grid == (0..MaxCoord) \X (0..MaxCoord)
Shapes == {<<p, q>> : p \in Grid, q \in Grid}
Transposed(sh) == [k \in 1..Len(sh) |-> <<sh[k][2], sh[k][1]>>]

\* One stroke per line: the shape on odd lines, its transpose on even ones.
StrokesFor(sh, n) == [k \in 1..n |-> IF k % 2 = 1 THEN sh ELSE Transposed(sh)]

\* margin_left, margin_top as the callers pass them (negated margins).
MarginPairs == {<<0, 0>>, <<-3, -5>>}

DrawPages ==
    {[line_height |-> 2 * h, total_lines_per_page |-> n,
      margin_left |-> mg[1], margin_top |-> mg[2]] :
        h \in 1..MaxHalfLineHeight, n \in 1..MaxSlots, mg \in MarginPairs}

DrawInit ==
    /\ d_pc = "start"
    /\ lines \in SeqsUpTo(DrawLineKinds, MaxDrawLines)
    /\ \E sh \in Shapes : strokes = StrokesFor(sh, Len(lines))
    /\ page \in DrawPages
    /\ i = 0 /\ initial_coord = <<0, 0>> /\ dwg = <<>>

\* _draw up to the loop: background, ruled lines, margins, initial_coord.
DrawStart ==
    /\ d_pc = "start"
    /\ dwg' = Background(page)
    /\ initial_coord' = InitialCoord(page)
    /\ i' = 0
    /\ d_pc' = "loop"
    /\ UNCHANGED <<lines, strokes, page>>
    /\ UNCHANGED notDraw

\* One iteration of the loop over zip(strokes, lines, ...).
DrawLine ==
    /\ d_pc = "loop"
    /\ i < Len(lines) /\ i < Len(strokes)
    /\ ~AtCap(i, page.total_lines_per_page)
    /\ LET r == LoopBody(dwg, initial_coord, i, lines[i + 1], strokes[i + 1],
                         page.line_height)
       IN  dwg' = r.dwg /\ initial_coord' = r.initial_coord
    /\ i' = i + 1
    /\ UNCHANGED <<d_pc, lines, strokes, page>>
    /\ UNCHANGED notDraw

\* The loop ends (zip exhausted, or the break at the cap); dwg.save().
DrawSave ==
    /\ d_pc = "loop"
    /\ i >= Len(lines) \/ i >= Len(strokes) \/ AtCap(i, page.total_lines_per_page)
    /\ d_pc' = "saved"
    /\ UNCHANGED <<lines, strokes, page, i, initial_coord, dwg>>
    /\ UNCHANGED notDraw

SpecDrawInit == DrawInit /\ SchedIdle /\ GenIdle /\ ProcIdle /\ FitIdle

SpecDrawNext ==
    \/ DrawStart
    \/ DrawLine
    \/ DrawSave

SpecDraw == SpecDrawInit /\ [][SpecDrawNext]_vars

(***************************************************************************)
(* CLAIMS about _draw (checked under SpecDraw)                             *)
(***************************************************************************)
Paths(doc) == SelectSeq(doc, LAMBDA e : e.kind = "path")

MinX(pts) == SeqMin([k \in 1..Len(pts) |-> pts[k][1]])
MinY(pts) == SeqMin([k \in 1..Len(pts) |-> pts[k][2]])

\* The path drawn for the line of 0-based index idx.
PathOf(doc, idx) ==
    LET ps == Paths(doc) IN ps[CHOOSE k \in 1..Len(ps) : ps[k].line = idx]

HasPath(doc, idx) == \E k \in 1..Len(Paths(doc)) : Paths(doc)[k].line = idx

\* s with x inserted after its first k elements.
InsertAfter(s, k, x) == SubSeq(s, 1, k) \o <<x>> \o SubSeq(s, k + 1, Len(s))

\* C2: the document never holds more than total_lines_per_page stroke
\* paths, and no line of index >= total_lines_per_page is drawn on it.
C2_CompositionCap ==
    d_pc \in {"loop", "saved"} =>
        /\ Len(Paths(dwg)) <= page.total_lines_per_page
        /\ \A k \in 1..Len(Paths(dwg)) :
              Paths(dwg)[k].line < page.total_lines_per_page
        /\ i <= page.total_lines_per_page

C2_Witness ==
    /\ d_pc = "saved"
    /\ Len(lines) > page.total_lines_per_page
    /\ lines[Len(lines)] # <<>>
    /\ \E k \in 1..Len(lines) : lines[k] = <<>>
    /\ Len(Paths(dwg)) = page.total_lines_per_page - 1

\* C8 as stated: for every drawn line the least x of the placed stroke is
\* the anchor x (the left margin) and the least y is the anchor y (the
\* vertical cursor).
C8_PlacedAtAnchor ==
    \A k \in 1..Len(Paths(dwg)) :
        LET e == Paths(dwg)[k] IN
        MinX(e.pts) = e.at[1] /\ MinY(e.pts) = e.at[2]

\* C9: the line of index idx is anchored idx line-heights below the first,
\* blank lines counted; and a blank line inserted between two text lines
\* (both within the cap) moves the later line's stroke down by one
\* line-height, x unchanged, and leaves the earlier line's stroke as it was.
C9_VerticalCursor ==
    /\ \A k \in 1..Len(Paths(dwg)) :
          Paths(dwg)[k].at =
              <<-page.margin_left,
                -(page.margin_top - page.line_height \div 2)
                    + Paths(dwg)[k].line * page.line_height>>
    /\ d_pc = "saved" =>
          \A k \in 1..(Len(lines) - 1) :
              (/\ lines[k] # <<>> /\ lines[k + 1] # <<>>
               /\ k + 2 <= page.total_lines_per_page) =>
                  LET with == DrawDocument(InsertAfter(lines, k, <<>>),
                                           InsertAfter(strokes, k, strokes[k]),
                                           page)
                      later == PathOf(dwg, k)
                      moved == PathOf(with, k + 1)
                  IN  /\ HasPath(with, k + 1) /\ ~HasPath(with, k)
                      /\ moved.pts =
                            [j \in 1..Len(later.pts) |->
                                <<later.pts[j][1],
                                  later.pts[j][2] + page.line_height>>]
                      /\ PathOf(with, k - 1) = PathOf(dwg, k - 1)

C9_Witness ==
    /\ d_pc = "saved"
    /\ \E k \in 1..(Len(lines) - 1) :
          /\ lines[k] # <<>> /\ lines[k + 1] # <<>>
          /\ k + 2 <= page.total_lines_per_page
          /\ HasPath(dwg, k) /\ HasPath(dwg, k - 1)
          /\ HasPath(DrawDocument(InsertAfter(lines, k, <<>>),
                                  InsertAfter(strokes, k, strokes[k]), page),
                     k + 1)


(***************************************************************************)
(* CLAIMS about the documents of generate_handwriting (checked under       *)
(* SpecText): the document of a hand.write call is what _draw composes     *)
(* from the call's lines and page argument.                                *)
(***************************************************************************)
\* The document of one hand.write call, a two-point stroke for each line.
DocumentOf(w) ==
    DrawDocument(w.lines, StrokesFor(<< <<0, 0>>, <<1, 1>> >>, Len(w.lines)),
                 w.page)

\* The horizontal ruled lines of a document.
RuledLines(doc) == SelectSeq(doc, LAMBDA e : e.kind = "line")

\* C16 as stated: every document of a request has exactly lines_per_page
\* ruled lines.
C16_RuledLinesPerPage ==
    g_pc \in {"done", "GenerationError"} =>
        \A k \in 1..Len(written) :
            Len(RuledLines(DocumentOf(written[k]))) = GenP

\* C16 amended: every document of a request has exactly total_lines ruled
\* lines (the value generate_handwriting passes as total_lines_per_page),
\* whatever the Display Lines of the page and however many are blank.
C16_RuledLinesTotalLines ==
    g_pc \in {"done", "GenerationError"} =>
        \A k \in 1..Len(written) :
            Len(RuledLines(DocumentOf(written[k]))) = GenT

\* A page with a blank and a written line, in a request whose total_lines
\* and lines_per_page differ.
C16_Witness ==
    /\ g_pc = "done" /\ GenT # GenP
    /\ \E k \in 1..Len(written) :
          /\ \E n \in 1..Len(written[k].lines) : written[k].lines[n] = <<>>
          /\ \E n \in 1..Len(written[k].lines) : written[k].lines[n] # <<>>
          /\ Len(RuledLines(DocumentOf(written[k]))) = GenT


\* The content of file name after the hand.write calls ws, starting from
\* content: dwg.save() replaces the file, so the last call to it wins.
\* A content is <<>> (no such file) or <<w>>, the call that wrote it.
RECURSIVE FileAfter(_, _, _)
FileAfter(ws, name, content) ==
    IF ws = <<>> THEN content
    ELSE FileAfter(Tail(ws), name,
                   IF Head(ws).filename = name THEN <<Head(ws)>> ELSE content)

\* C21: in preview mode generate_handwriting shows no overflow dialog and
\* writes every page of the untruncated paginated text, in page order, to
\* the one preview file; when it returns without error the file holds the
\* document of the last page (there is a page whenever max_line_length is
\* at least 1).
C21_PreviewFileHoldsLastPage ==
    /\ g_preview => (g_pc # "askyesno" /\ overflow = <<>>)
    /\ (g_pc = "done" /\ g_preview) =>
          /\ Concat(pages) = HardWrap(g_text, GenL)
          /\ Len(written) = Len(pages)
          /\ \A k \in 1..Len(written) :
                /\ written[k].filename = <<"preview.svg">>
                /\ written[k].lines = pages[k]
          /\ (GenL >= 1 => pages # <<>>)
          /\ pages # <<>> =>
                LET file == FileAfter(written, <<"preview.svg">>, <<>>) IN
                    /\ file # <<>>
                    /\ file[1].lines = pages[Len(pages)]
                    /\ DocumentOf(file[1]) =
                          DocumentOf([lines |-> pages[Len(pages)],
                                      page |-> PageArg(g_params)])

\* A preview of a text that wraps into more lines than total_lines and into
\* two different pages: the file holds the second page.
C21_Witness ==
    /\ g_pc = "done" /\ g_preview
    /\ Len(wrapped_lines) > GenT
    /\ Len(pages) = 2 /\ pages[1] # pages[2]
    /\ FileAfter(written, <<"preview.svg">>, <<>>)[1].lines = pages[2]

(***************************************************************************)
(* display_svg_preview (src/gui.py): the size of the bitmap                *)
(*                                                                         *)
(* img_ratio and canvas_ratio are quotients of positive integers; the      *)
(* model compares and scales them as exact fractions, and int() truncates  *)
(* toward zero.                                                            *)
(***************************************************************************)
MaxImage == 3            \* img.width, img.height
MaxCanvas == 30          \* winfo_width(), winfo_height()

ImageSizes == (1..MaxImage) \X (1..MaxImage)
ViewSizes == (0..MaxCanvas) \X (0..MaxCanvas)

\* int(a / b) for b > 0.
Trunc(a, b) == IF a >= 0 THEN a \div b ELSE -((-a) \div b)

\* img_ratio > canvas_ratio
WiderThanCanvas(im, w, h) == im[1] * h > w * im[2]

\* The if/else computing (new_width, new_height).
NewSize(im, w, h) ==
    IF WiderThanCanvas(im, w, h)
      THEN <<w - 20, Trunc((w - 20) * im[2], im[1])>>
      ELSE <<Trunc((h - 20) * im[1], im[2]), h - 20>>

FitInit ==
    /\ f_pc = "open"
    /\ img \in ImageSizes
    /\ canvas_width = 0 /\ canvas_height = 0
    /\ new_width = 0 /\ new_height = 0 /\ image_at = <<>>

\* canvas_width, canvas_height are read; a degenerate canvas returns.
ReadCanvas ==
    /\ f_pc = "open"
    /\ \E size \in ViewSizes :
          /\ canvas_width' = size[1]
          /\ canvas_height' = size[2]
          /\ f_pc' = IF Degenerate(size) THEN "returned" ELSE "ratio"
    /\ UNCHANGED <<img, new_width, new_height, image_at>>
    /\ UNCHANGED notFit

\* "Calculate scaling to fit canvas".
ComputeSize ==
    /\ f_pc = "ratio"
    /\ new_width' = NewSize(img, canvas_width, canvas_height)[1]
    /\ new_height' = NewSize(img, canvas_width, canvas_height)[2]
    /\ f_pc' = "resize"
    /\ UNCHANGED <<img, canvas_width, canvas_height, image_at>>
    /\ UNCHANGED notFit

\* img.resize((new_width, new_height)), which Pillow refuses with ValueError
\* for a size that is not positive (caught by the except clause); then
\* delete("all"), PhotoImage and create_image(canvas_width / 2,
\* canvas_height / 2, anchor=CENTER).
ShowImage ==
    /\ f_pc = "resize"
    /\ IF new_width >= 1 /\ new_height >= 1
         THEN /\ image_at' = <<canvas_width, canvas_height>>
              /\ f_pc' = "shown"
         ELSE /\ f_pc' = "Preview display error"
              /\ UNCHANGED image_at
    /\ UNCHANGED <<img, canvas_width, canvas_height, new_width, new_height>>
    /\ UNCHANGED notFit

SpecFitInit == FitInit /\ SchedIdle /\ GenIdle /\ ProcIdle /\ DrawIdle

SpecFitNext ==
    \/ ReadCanvas
    \/ ComputeSize
    \/ ShowImage

SpecFit == SpecFitInit /\ [][SpecFitNext]_vars

(***************************************************************************)
(* CLAIMS about the bitmap size (checked under SpecFit)                    *)
(***************************************************************************)
\* C14 as stated: a bitmap that is resized and drawn fits the viewport with
\* the 10-pixel margin on each side (new_width <= w - 20 and new_height <=
\* h - 20), keeps the image's ratio up to the truncation of one dimension,
\* and is drawn centred at (w/2, h/2).
C14_FitsWithMargin ==
    f_pc = "shown" =>
        /\ new_width <= canvas_width - 20
        /\ new_height <= canvas_height - 20
        /\ \/ /\ 0 <= new_width * img[2] - new_height * img[1]
              /\ new_width * img[2] - new_height * img[1] < img[1]
           \/ /\ 0 <= new_height * img[1] - new_width * img[2]
              /\ new_height * img[1] - new_width * img[2] < img[2]
        /\ image_at = <<canvas_width, canvas_height>>

\* C19 as stated: on a canvas that passes the degenerate check, for an image
\* of positive width and height, new_width and new_height are both >= 1.
C19_PositiveSize ==
    f_pc \in {"resize", "shown", "Preview display error"} =>
        new_width >= 1 /\ new_height >= 1

=============================================================================
